---- MODULE Spec2Model ----
(***************************************************************************)
(* Model of the Ai-Travel-Planner-Agent repository: TripPlannerService     *)
(* (the itinerary generator), the Index page with its TripPlannerForm, and *)
(* the ApiKeySetup component.                                              *)
(*                                                                         *)
(* Text is modelled as a sequence of string pieces: a template literal     *)
(* `${destination} Walking Tour` is destination \o <<" Walking Tour">>,    *)
(* so "starts with" is a real prefix test on the pieces.                   *)
(* Math.random() is modelled by a tape of draws k / RandDen (k in          *)
(* 0..RandDen-1) that the generator reads cyclically, one draw per call.   *)
(* Decimal ratings are kept in tenths (4.1 is 41).                         *)
(*                                                                         *)
(* The specifications share the variables:                                 *)
(*   Spec          calls of TripPlannerService.generateTripPlan;           *)
(*   SpecPair      two such calls with the same random draws;              *)
(*   SpecPage      the Index page with its TripPlannerForm;                *)
(*   SpecPeople    the page with the party controls over their range;      *)
(*   LiveSpecPage  the page's submissions, with timers that fire;          *)
(*   SpecKeys      the ApiKeySetup component.                              *)
(* Each leaves the variables of the others as they are after construction. *)
(***************************************************************************)
EXTENDS Integers, Sequences, FiniteSets, TLC

VARIABLES
  pc,        \* position of the generateTripPlan call: "idle", "pending", "done"
  formData,  \* the argument of the call in flight
  result,    \* the value the promise resolved with
  \* TripPlannerForm
  form,      \* its formData state: destination, date, people, budget, experienceType
  now,       \* the clock that new Date() reads, in ticks
  \* Index
  isGeneratingPlan,
  tripPlan,       \* << >> for null, else <<plan>>
  pageFormData,   \* Index's formData state: << >> for null, else <<data>>
  toast,          \* the notice last shown: << >> for none, else <<notice>>
  \* ApiKeySetup
  geminiKey,
  tavilyKey,
  showGeminiKey,
  showTavilyKey,
  isTestingConnection,
  localStorage,   \* the keys stored: << >> for none, else <<[gemini, tavily]>>
  setupComplete   \* onSetupComplete has been called

serviceVars == <<pc, formData, result>>

formVars == <<form, now>>

pageVars == <<isGeneratingPlan, tripPlan, pageFormData>>

keysVars == <<geminiKey, tavilyKey, showGeminiKey, showTavilyKey,
              isTestingConnection, localStorage, setupComplete>>

vars == <<serviceVars, formVars, pageVars, toast, keysVars>>

(***************************************************************************)
(* Bounds                                                                  *)
(***************************************************************************)
RandDen == 2   \* Math.random() draws are k / RandDen, k in 0..RandDen-1
TapeLen == 3   \* period of the tape of random draws
MaxParty == 2  \* party sizes 1..MaxParty

\* Slider min={5000} max={500000} step={5000} of the budget
BudgetMin == 5000

BudgetMax == 500000

BudgetStep == 5000

\* the people controls: formData.people > 1 to decrement, < 20 to increment
PeopleMin == 1

PeopleMax == 20

Budgets == {5000, 24000, 40000, 64000, 75000, 1000000}
ExperienceLevels == {0, 10, 25, 26, 30, 50, 51, 60, 75, 76, 80, 90, 100}
Destinations == {<<"Paris">>, <<"Private ", "Island">>}
Dates == {<<>>, <<1>>}   \* undefined, or a day number
Tapes == [0..(TapeLen - 1) -> 0..(RandDen - 1)]

\* Values a property read of a malformed request can throw.
Thrown == {[isError |-> TRUE, message |-> "boom"],
           [isError |-> FALSE, message |-> "a thrown string"]}

\* Well-formed requests (TripFormData), and the malformed ones: null, and an
\* object whose property accessor throws.
WellFormed == [kind : {"object"}, destination : Destinations, date : Dates,
               people : 1..MaxParty, budget : Budgets,
               experienceType : ExperienceLevels]

Malformed == {[kind |-> "null"]} \cup [kind : {"getter"}, thrown : Thrown]

Requests == WellFormed \cup Malformed

(***************************************************************************)
(* Arithmetic helpers                                                      *)
(***************************************************************************)
\* Math.round(n / d) for d > 0: floor(n/d + 1/2), a half rounding up, in exact
\* arithmetic.  Hotel prices base * (100 + e) / 100 and quotients by a party
\* size are far from a double's rounding error; an activity cost that falls
\* exactly on a half may differ by one unit from the double computation.
MathRound(n, d) == (2 * n + d) \div (2 * d)

MathMin(a, b) == IF a < b THEN a ELSE b

MathMax(a, b) == IF a > b THEN a ELSE b

RECURSIVE SumSeq(_, _)
\* Array.prototype.reduce((sum, x) => sum + f(x), 0) over the first n elements
SumSeq(s, n) == IF n = 0 THEN 0 ELSE SumSeq(s, n - 1) + s[n]

(***************************************************************************)
(* generateMockTripPlan and its helpers                                    *)
(***************************************************************************)
\* faulty variant of TotalDays: a day per 7000 instead of 8000
TotalDaysFloor7000(budget) == MathMin(MathMax(budget \div 7000, 3), 14)

\* const totalDays = Math.min(Math.max(Math.floor(budget / 8000), 3), 14)
TotalDays(budget) == MathMin(MathMax(budget \div 8000, 3), 14)

\* luxuryMultiplier = 1 + experienceType / 100, kept as a numerator over 100
luxuryMultiplier(experienceType) == 100 + experienceType

\* Math.random(): the n-th draw (n from 0) of the tape, as a numerator over RandDen
random(tape, n) == tape[n % TapeLen]

themes == << <<"Arrival & City Exploration">>,
             <<"Cultural Heritage Tour">>,
             <<"Adventure & Nature">>,
             <<"Local Cuisine & Markets">>,
             <<"Art & Museums">>,
             <<"Relaxation & Wellness">>,
             <<"Shopping & Entertainment">>,
             <<"Departure & Last Moments">> >>

\* faulty variant of themeOfDay: the index is day % 8, one theme ahead
themeOfDayOffByOne(day) == themes[(day % Len(themes)) + 1]

\* const theme = themes[(day - 1) % themes.length]
themeOfDay(day) == themes[((day - 1) % Len(themes)) + 1]

\* const baseActivities = activities[theme] || [generic four]
baseActivities(destination, theme) ==
  CASE theme = <<"Arrival & City Exploration">> ->
         << destination \o <<" Walking Tour">>,
            <<"Historic City Center Visit">>,
            <<"Local Orientation & Welcome Dinner">>,
            <<"Sunset Viewpoint Tour">> >>
    [] theme = <<"Cultural Heritage Tour">> ->
         << <<"Heritage Sites & Monuments">>,
            <<"Traditional Dance Performance">>,
            <<"Local Art Gallery Visit">>,
            <<"Historical Museum Tour">> >>
    [] theme = <<"Adventure & Nature">> ->
         << <<"Nature Hiking Trail">>,
            <<"Water Sports Adventure">>,
            <<"Wildlife Safari Tour">>,
            <<"Mountain Trekking Experience">> >>
    [] theme = <<"Local Cuisine & Markets">> ->
         << <<"Street Food Walking Tour">>,
            <<"Cooking Class Experience">>,
            <<"Local Market Exploration">>,
            <<"Wine/Tea Tasting Session">> >>
    [] OTHER ->
         << <<"City Tour">>, <<"Local Experience">>,
            <<"Cultural Visit">>, <<"Scenic Tour">> >>

\* the unprefixed name: baseActivities[index % baseActivities.length]
baseActivityName(destination, theme, index) ==
  LET base == baseActivities(destination, theme)
  IN  base[(index % Len(base)) + 1]

\* faulty variant of generateActivityName: two independent ifs, both prefixes apply
generateActivityNameBothPrefixes(destination, theme, index, experienceType) ==
  LET activity == baseActivityName(destination, theme, index)
      premium == IF experienceType > 50 THEN <<"Premium ">> ELSE <<>>
      private == IF experienceType > 75 THEN <<"Private ">> ELSE <<>>
  IN  premium \o private \o activity

generateActivityName(destination, theme, index, experienceType) ==
  LET activity == baseActivityName(destination, theme, index)
  IN  IF experienceType > 75 THEN <<"Private ">> \o activity
      ELSE IF experienceType > 50 THEN <<"Premium ">> \o activity
      ELSE activity

generateActivityDescription(theme, experienceType) ==
  IF experienceType <= 25
    THEN "An authentic local experience that offers great value and genuine cultural immersion."
  ELSE IF experienceType <= 50
    THEN "A well-organized experience combining comfort with authentic local culture and history."
  ELSE IF experienceType <= 75
    THEN "A premium experience with expert guides, exclusive access, and luxury amenities."
  ELSE "An ultra-luxury experience with private access, world-class service, and exclusive perks."

categories == <<"Cultural", "Adventure", "Food & Drink", "Sightseeing",
                "Entertainment", "Wellness">>

getActivityCategory(theme, index) == categories[(index % Len(categories)) + 1]

durations == <<"2 hours", "3 hours", "Half day", "Full day">>

\* One Hotel record; rating is in tenths.
Hotel(name, rating, base, experienceType, description, amenities) ==
  [name |-> name, rating |-> rating,
   pricePerNight |-> MathRound(base * luxuryMultiplier(experienceType), 100),
   description |-> description, amenities |-> amenities]

\* faulty variant of generateHotels: band edges compared with < instead of <=
generateHotelsStrictBands(destination, experienceType) ==
  IF experienceType < 25 THEN
    << Hotel(destination \o <<" Backpacker's Haven">>, 41, 1500, experienceType,
             "Clean, comfortable hostel with great social atmosphere and local vibes.",
             <<"Free WiFi", "Shared Kitchen", "Common Area", "Laundry", "24/7 Reception">>) >>
  ELSE IF experienceType < 50 THEN
    << Hotel(destination \o <<" Comfort Inn & Suites">>, 43, 3500, experienceType,
             "Modern hotel offering great value with excellent amenities and service.",
             <<"Free WiFi", "Breakfast", "Gym", "Pool", "Room Service", "Parking">>) >>
  ELSE IF experienceType < 75 THEN
    << Hotel(destination \o <<" Premium Resort">>, 46, 7500, experienceType,
             "Upscale resort with premium amenities and exceptional service.",
             <<"Free WiFi", "Spa", "Fine Dining", "Concierge", "Pool", "Beach Access">>) >>
  ELSE
    << Hotel(<<"The Luxury ">> \o destination \o <<" Collection">>, 49, 15000, experienceType,
             "Ultra-luxury hotel offering world-class amenities and personalized service.",
             <<"Butler Service", "Private Pool", "Michelin Star Dining", "Spa",
               "Helicopter Tours", "Private Beach">>) >>

\* faulty variant of generateHotels: the final else branch is missing
generateHotelsNoLuxury(destination, experienceType) ==
  IF experienceType <= 25 THEN
    << Hotel(destination \o <<" Backpacker's Haven">>, 41, 1500, experienceType,
             "Clean, comfortable hostel with great social atmosphere and local vibes.",
             <<"Free WiFi", "Shared Kitchen", "Common Area", "Laundry", "24/7 Reception">>) >>
  ELSE IF experienceType <= 50 THEN
    << Hotel(destination \o <<" Comfort Inn & Suites">>, 43, 3500, experienceType,
             "Modern hotel offering great value with excellent amenities and service.",
             <<"Free WiFi", "Breakfast", "Gym", "Pool", "Room Service", "Parking">>) >>
  ELSE IF experienceType <= 75 THEN
    << Hotel(destination \o <<" Premium Resort">>, 46, 7500, experienceType,
             "Upscale resort with premium amenities and exceptional service.",
             <<"Free WiFi", "Spa", "Fine Dining", "Concierge", "Pool", "Beach Access">>) >>
  ELSE << >>

\* const hotels: Hotel[] = []; if (experienceType <= 25) hotels.push(...) else if ...
generateHotels(destination, experienceType) ==
  IF experienceType <= 25 THEN
    << Hotel(destination \o <<" Backpacker's Haven">>, 41, 1500, experienceType,
             "Clean, comfortable hostel with great social atmosphere and local vibes.",
             <<"Free WiFi", "Shared Kitchen", "Common Area", "Laundry", "24/7 Reception">>) >>
  ELSE IF experienceType <= 50 THEN
    << Hotel(destination \o <<" Comfort Inn & Suites">>, 43, 3500, experienceType,
             "Modern hotel offering great value with excellent amenities and service.",
             <<"Free WiFi", "Breakfast", "Gym", "Pool", "Room Service", "Parking">>) >>
  ELSE IF experienceType <= 75 THEN
    << Hotel(destination \o <<" Premium Resort">>, 46, 7500, experienceType,
             "Upscale resort with premium amenities and exceptional service.",
             <<"Free WiFi", "Spa", "Fine Dining", "Concierge", "Pool", "Beach Access">>) >>
  ELSE
    << Hotel(<<"The Luxury ">> \o destination \o <<" Collection">>, 49, 15000, experienceType,
             "Ultra-luxury hotel offering world-class amenities and personalized service.",
             <<"Butler Service", "Private Pool", "Michelin Star Dining", "Spa",
               "Helicopter Tours", "Private Beach">>) >>

\* faulty variant of activityCount: edges compared with < instead of <=
activityCountStrictBands(experienceType) ==
  IF experienceType < 25 THEN 3 ELSE IF experienceType < 75 THEN 4 ELSE 5

\* faulty variant of activityCount: the second edge at 50 instead of 75
activityCountFourBands(experienceType) ==
  IF experienceType <= 25 THEN 3 ELSE IF experienceType <= 50 THEN 4 ELSE 5

\* const activityCount = experienceType <= 25 ? 3 : experienceType <= 75 ? 4 : 5
activityCount(experienceType) ==
  IF experienceType <= 25 THEN 3 ELSE IF experienceType <= 75 THEN 4 ELSE 5

\* faulty variant of generateActivity: the cost band starts at 400 instead of 500
generateActivityFrom400(destination, theme, i, experienceType, tape, n) ==
  [name |-> generateActivityName(destination, theme, i, experienceType),
   duration |-> durations[((random(tape, 2 * n) * 4) \div RandDen) + 1],
   cost |-> MathRound((400 * RandDen + random(tape, 2 * n + 1) * 3000)
                        * luxuryMultiplier(experienceType),
                      RandDen * 100),
   description |-> generateActivityDescription(theme, experienceType),
   category |-> getActivityCategory(theme, i)]

\* The i-th activity (i from 0) of a day; it is the n-th activity of the plan
\* (n from 0) and takes the draws 2n (duration) and 2n + 1 (cost) of the tape.
generateActivity(destination, theme, i, experienceType, tape, n) ==
  [name |-> generateActivityName(destination, theme, i, experienceType),
   duration |-> durations[((random(tape, 2 * n) * 4) \div RandDen) + 1],
   cost |-> MathRound((500 * RandDen + random(tape, 2 * n + 1) * 3000)
                        * luxuryMultiplier(experienceType),
                      RandDen * 100),
   description |-> generateActivityDescription(theme, experienceType),
   category |-> getActivityCategory(theme, i)]

\* faulty variant of estimatedCost: the reduce starts from 100 instead of 0
estimatedCostWithFee(activities) ==
  SumSeq([i \in 1..Len(activities) |-> activities[i].cost], Len(activities)) + 100

\* activities.reduce((sum, activity) => sum + activity.cost, 0)
estimatedCost(activities) ==
  SumSeq([i \in 1..Len(activities) |-> activities[i].cost], Len(activities))

\* The body of the loop over day = 1..totalDays: one DayPlan.
generateDayPlan(destination, day, experienceType, tape) ==
  LET theme == themeOfDay(day)
      count == activityCount(experienceType)
      activities == [k \in 1..count |->
                       generateActivity(destination, theme, k - 1, experienceType,
                                        tape, (day - 1) * count + (k - 1))]
  IN  [day |-> day, theme |-> theme, activities |-> activities,
       estimatedCost |-> estimatedCost(activities)]

\* for (let day = 1; day <= totalDays; day++) { ...; dayPlans.push({...}) }
generateDayPlans(destination, totalDays, experienceType, tape) ==
  [d \in 1..totalDays |-> generateDayPlan(destination, d, experienceType, tape)]

\* faulty variant of totalCost: the hotel nights are left out
totalCostNoHotel(dayPlans, hotels, totalDays) ==
  SumSeq([i \in 1..Len(dayPlans) |-> dayPlans[i].estimatedCost], Len(dayPlans))

\* dayPlans.reduce((sum, day) => sum + day.estimatedCost, 0)
\*   + (hotels[0].pricePerNight * totalDays)
totalCost(dayPlans, hotels, totalDays) ==
  SumSeq([i \in 1..Len(dayPlans) |-> dayPlans[i].estimatedCost], Len(dayPlans))
    + hotels[1].pricePerNight * totalDays

generateOverview(destination, days, experienceType) ==
  LET experienceLevel ==
        IF experienceType <= 25 THEN "budget-friendly adventure"
        ELSE IF experienceType <= 50 THEN "comfortable exploration"
        ELSE IF experienceType <= 75 THEN "premium journey"
        ELSE "luxury expedition"
  IN  <<"Experience the best of ">> \o destination
        \o <<" in this carefully crafted ", days, "-day ", experienceLevel,
             ". From iconic landmarks to hidden gems, this itinerary balances must-see attractions with authentic local experiences.">>

\* faulty variant of generateTips: the tips for e > 50 are put in front (unshift)
generateTipsPrepend(destination, experienceType) ==
  LET tips == << <<"Best time to visit ">> \o destination
                   \o <<" is during the shoulder season for fewer crowds and better prices.">>,
                 <<"Download offline maps and translation apps before you go for easier navigation.">>,
                 <<"Try to learn a few basic phrases in the local language - locals appreciate the effort!">>,
                 <<"Pack comfortable walking shoes as you'll be doing lots of exploring on foot.">>,
                 <<"Keep digital and physical copies of important documents in separate locations.">> >>
      more50 == IF experienceType > 50
                  THEN << <<"Consider hiring a private guide for personalized insights and skip-the-line access.">>,
                          <<"Make restaurant reservations in advance, especially for popular or high-end establishments.">> >>
                  ELSE << >>
      more75 == IF experienceType > 75
                  THEN << <<"Arrange for private airport transfers and concierge services for a seamless experience.">> >>
                  ELSE << >>
  IN  more50 \o tips \o more75

\* const tips = [five]; if (experienceType > 50) tips.push(two); if (> 75) tips.push(one)
generateTips(destination, experienceType) ==
  LET tips == << <<"Best time to visit ">> \o destination
                   \o <<" is during the shoulder season for fewer crowds and better prices.">>,
                 <<"Download offline maps and translation apps before you go for easier navigation.">>,
                 <<"Try to learn a few basic phrases in the local language - locals appreciate the effort!">>,
                 <<"Pack comfortable walking shoes as you'll be doing lots of exploring on foot.">>,
                 <<"Keep digital and physical copies of important documents in separate locations.">> >>
      more50 == IF experienceType > 50
                  THEN << <<"Consider hiring a private guide for personalized insights and skip-the-line access.">>,
                          <<"Make restaurant reservations in advance, especially for popular or high-end establishments.">> >>
                  ELSE << >>
      more75 == IF experienceType > 75
                  THEN << <<"Arrange for private airport transfers and concierge services for a seamless experience.">> >>
                  ELSE << >>
  IN  tips \o more50 \o more75

\* What a call that may throw produced: a returned value or a thrown one.
Returned(v) == [threw |-> FALSE, value |-> v]

Threw(e) == [threw |-> TRUE, thrown |-> e]

TypeError(message) == [isError |-> TRUE, message |-> message]

\* faulty variant of generateMockTripPlan: a request with a travel date gets a
\* trip of at most a week
generateMockTripPlanDateAware(request, tape) ==
  IF request.kind = "null" THEN
    Threw(TypeError("Cannot destructure property 'destination' of 'formData' as it is null."))
  ELSE IF request.kind = "getter" THEN
    Threw(request.thrown)
  ELSE
    LET destination == request.destination
        people == request.people
        experienceType == request.experienceType
        totalDays == IF request.date = << >> THEN TotalDays(request.budget)
                     ELSE MathMin(TotalDays(request.budget), 7)
        hotels == generateHotels(destination, experienceType)
        dayPlans == generateDayPlans(destination, totalDays, experienceType, tape)
    IN  IF Len(hotels) = 0 THEN
          Threw(TypeError("Cannot read properties of undefined (reading 'pricePerNight')"))
        ELSE
          LET total == totalCost(dayPlans, hotels, totalDays)
          IN  Returned([destination |-> destination,
                        totalDays |-> totalDays,
                        totalCost |-> total,
                        costPerPerson |-> MathRound(total, people),
                        hotels |-> hotels,
                        dayPlans |-> dayPlans,
                        overview |-> generateOverview(destination, totalDays, experienceType),
                        tips |-> generateTips(destination, experienceType)])

\* private static generateMockTripPlan(formData): the destructuring of formData
\* throws on null (and whatever a property accessor throws); hotels[0] of an
\* empty array is undefined and reading its pricePerNight throws.
generateMockTripPlan(request, tape) ==
  IF request.kind = "null" THEN
    Threw(TypeError("Cannot destructure property 'destination' of 'formData' as it is null."))
  ELSE IF request.kind = "getter" THEN
    Threw(request.thrown)
  ELSE
    LET destination == request.destination
        people == request.people
        experienceType == request.experienceType
        totalDays == TotalDays(request.budget)
        hotels == generateHotels(destination, experienceType)
        dayPlans == generateDayPlans(destination, totalDays, experienceType, tape)
    IN  IF Len(hotels) = 0 THEN
          Threw(TypeError("Cannot read properties of undefined (reading 'pricePerNight')"))
        ELSE
          LET total == totalCost(dayPlans, hotels, totalDays)
          IN  Returned([destination |-> destination,
                        totalDays |-> totalDays,
                        totalCost |-> total,
                        costPerPerson |-> MathRound(total, people),
                        hotels |-> hotels,
                        dayPlans |-> dayPlans,
                        overview |-> generateOverview(destination, totalDays, experienceType),
                        tips |-> generateTips(destination, experienceType)])

\* faulty variant of generateTripPlan: the catch always returns the generic text
generateTripPlanGenericError(request, tape) ==
  LET r == generateMockTripPlan(request, tape)
  IN  IF ~r.threw THEN [success |-> TRUE, data |-> r.value]
      ELSE [success |-> FALSE, error |-> "Failed to generate trip plan"]

\* static async generateTripPlan(formData), from the timer's firing on:
\* try { ...; return { success: true, data } } catch (error) { return { success: false, error } }
generateTripPlan(request, tape) ==
  LET r == generateMockTripPlan(request, tape)
  IN  IF ~r.threw THEN [success |-> TRUE, data |-> r.value]
      ELSE [success |-> FALSE,
            error |-> IF r.thrown.isError THEN r.thrown.message
                      ELSE "Failed to generate trip plan"]

(***************************************************************************)
(* The state machine: calls of TripPlannerService.generateTripPlan         *)
(***************************************************************************)
\* useState<TripFormData>({...}) of TripPlannerForm
initialFormData ==
  [destination |-> << >>, date |-> << >>, people |-> 2, budget |-> 50000,
   experienceType |-> 25]

Init ==
  /\ pc = "idle"
  /\ formData = << >>
  /\ result = << >>
  /\ form = initialFormData
  /\ now = 0
  /\ isGeneratingPlan = FALSE
  /\ tripPlan = << >>
  /\ pageFormData = << >>
  /\ toast = << >>
  /\ geminiKey = << >>
  /\ tavilyKey = << >>
  /\ showGeminiKey = FALSE
  /\ showTavilyKey = FALSE
  /\ isTestingConnection = FALSE
  /\ localStorage = << >>
  /\ setupComplete = FALSE

\* generateTripPlan(request) is called and runs up to the await of the
\* 3000 ms timer; the promise is pending.  The service keeps no state between
\* calls, so one call is followed from its start to its resolution.
Call(request) ==
  /\ pc = "idle"
  /\ pc' = "pending"
  /\ formData' = <<request>>
  /\ result' = << >>
  /\ UNCHANGED <<formVars, pageVars, toast, keysVars>>

\* The timer fires: the plan is synthesised with the draws of Math.random()
\* and the promise resolves.
Resolve(tape) ==
  /\ pc = "pending"
  /\ pc' = "done"
  /\ result' = <<generateTripPlan(formData[1], tape)>>
  /\ UNCHANGED <<formData, formVars, pageVars, toast, keysVars>>

Next ==
  \/ \E request \in Requests : Call(request)
  \/ \E tape \in Tapes : Resolve(tape)

Spec == Init /\ [][Next]_vars

(***************************************************************************)
(* Two calls of generateTripPlan side by side, for what one call's output  *)
(* says about another's: the second request has the budget, party size and *)
(* experience level of the first and any date and destination, and both    *)
(* plans are synthesised with the same draws of Math.random().             *)
(***************************************************************************)
PairBudgets == {5000, 75000}

PairExperienceLevels == {0, 60, 100}

PairRequests ==
  {r \in WellFormed : /\ r.budget \in PairBudgets
                      /\ r.experienceType \in PairExperienceLevels
                      /\ r.people = 1}

CallPair(request, date, destination) ==
  /\ pc = "idle"
  /\ pc' = "pending"
  /\ formData' = <<request, [request EXCEPT !.date = date,
                                            !.destination = destination]>>
  /\ result' = << >>
  /\ UNCHANGED <<formVars, pageVars, toast, keysVars>>

ResolvePair(tape) ==
  /\ pc = "pending"
  /\ Len(formData) = 2
  /\ pc' = "done"
  /\ result' = <<generateTripPlan(formData[1], tape),
                 generateTripPlan(formData[2], tape)>>
  /\ UNCHANGED <<formData, formVars, pageVars, toast, keysVars>>

NextPair ==
  \/ \E request \in PairRequests, date \in Dates, destination \in Destinations :
       CallPair(request, date, destination)
  \/ \E tape \in Tapes : ResolvePair(tape)

SpecPair == Init /\ [][NextPair]_vars

(***************************************************************************)
(* The Index page and its TripPlannerForm                                  *)
(***************************************************************************)
TicksPerDay == 2   \* clock ticks in a day; a calendar day d starts at d * TicksPerDay
MaxNow == 2        \* the clock runs from 0 to MaxNow
MaxDay == 1        \* the calendar offers the days 0..MaxDay

FormDestinations == {<< >>, <<" ">>, <<"Paris">>}
FormBudgets == {BudgetMin}     \* besides the initial 50000
FormExperienceTypes == {100}   \* besides the initial 25
\* the tapes of Math.random() the page is run with: every draw the same
PageTapes == {tape \in Tapes : \A n \in DOMAIN tape : tape[n] = tape[0]}
CalendarDays == 0..MaxDay

RECURSIVE trimStart(_)
\* the text without its leading white space
trimStart(s) ==
  IF s # << >> /\ Head(s) = " " THEN trimStart(Tail(s)) ELSE s

RECURSIVE trimEnd(_)
\* the text without its trailing white space
trimEnd(s) ==
  IF s # << >> /\ s[Len(s)] = " " THEN trimEnd(SubSeq(s, 1, Len(s) - 1)) ELSE s

\* String.prototype.trim
trim(s) == trimEnd(trimStart(s))

\* disabled={(date) => date < new Date()}: the calendar's date is the start of
\* its day, new Date() is the present instant
calendarDisabled(day) == day * TicksPerDay < now

\* Index renders TripResults when tripPlan && formData, else TripPlannerForm
showsResults == tripPlan # << >> /\ pageFormData # << >>

\* faulty variant of submitDisabled: the button is never disabled
submitDisabledNever == FALSE

\* <Button type="submit" disabled={isLoading}>, isLoading={isGeneratingPlan}
submitDisabled == isGeneratingPlan

\* the TripFormData handed to the service
AsRequest(data) ==
  [kind |-> "object", destination |-> data.destination, date |-> data.date,
   people |-> data.people, budget |-> data.budget,
   experienceType |-> data.experienceType]

Notice(title, description, variant) ==
  [title |-> title, description |-> description, variant |-> variant]

\* onChange of the destination Input
SetDestination(value) ==
  /\ ~showsResults
  /\ form' = [form EXCEPT !.destination = value]
  /\ UNCHANGED <<now, serviceVars, pageVars, toast, keysVars>>

\* onSelect of the Calendar (mode="single"): a day that is not disabled is
\* picked, or the picked day is clicked again and the date is undefined
SelectDate(day) ==
  /\ ~showsResults
  /\ ~calendarDisabled(day)
  /\ form' = [form EXCEPT !.date = IF form.date = <<day>> THEN << >> ELSE <<day>>]
  /\ UNCHANGED <<now, serviceVars, pageVars, toast, keysVars>>

\* faulty variant of DecrementPeople: the guard is people > 0
DecrementPeopleToZero ==
  /\ ~showsResults
  /\ form' = IF form.people > 0 THEN [form EXCEPT !.people = @ - 1] ELSE form
  /\ UNCHANGED <<now, serviceVars, pageVars, toast, keysVars>>

\* onClick of "-": formData.people > 1 && setFormData({...formData, people - 1})
DecrementPeople ==
  /\ ~showsResults
  /\ form' = IF form.people > PeopleMin THEN [form EXCEPT !.people = @ - 1] ELSE form
  /\ UNCHANGED <<now, serviceVars, pageVars, toast, keysVars>>

\* onClick of "+": formData.people < 20 && setFormData({...formData, people + 1})
IncrementPeople ==
  /\ ~showsResults
  /\ form' = IF form.people < PeopleMax THEN [form EXCEPT !.people = @ + 1] ELSE form
  /\ UNCHANGED <<now, serviceVars, pageVars, toast, keysVars>>

\* onValueChange of the budget Slider
SetBudget(value) ==
  /\ ~showsResults
  /\ value >= BudgetMin /\ value <= BudgetMax /\ (value - BudgetMin) % BudgetStep = 0
  /\ form' = [form EXCEPT !.budget = value]
  /\ UNCHANGED <<now, serviceVars, pageVars, toast, keysVars>>

\* onValueChange of the experience Slider (min 0, max 100, step 25)
SetExperienceType(value) ==
  /\ ~showsResults
  /\ value >= 0 /\ value <= 100 /\ value % 25 = 0
  /\ form' = [form EXCEPT !.experienceType = value]
  /\ UNCHANGED <<now, serviceVars, pageVars, toast, keysVars>>

\* time passes
Tick ==
  /\ now < MaxNow
  /\ now' = now + 1
  /\ UNCHANGED <<form, serviceVars, pageVars, toast, keysVars>>

\* faulty variant of handlePlanTrip: setFormData(data) only when the page holds
\* no formData
handlePlanTripKeepsFormData(data) ==
  /\ isGeneratingPlan' = TRUE
  /\ pageFormData' = IF pageFormData = << >> THEN <<data>> ELSE pageFormData
  /\ pc' = "pending"
  /\ formData' = Append(formData, AsRequest(data))
  /\ UNCHANGED <<form, now, result, tripPlan, toast, keysVars>>

\* handlePlanTrip(data) up to its await, and generateTripPlan up to its own:
\* setIsGeneratingPlan(true); setFormData(data); the call joins those in flight
\* (formData holds their arguments, oldest first: the timers all take 3000 ms)
handlePlanTrip(data) ==
  /\ isGeneratingPlan' = TRUE
  /\ pageFormData' = <<data>>
  /\ pc' = "pending"
  /\ formData' = Append(formData, AsRequest(data))
  /\ UNCHANGED <<form, now, result, tripPlan, toast, keysVars>>

\* faulty variant of HandleSubmit: the date is not checked
HandleSubmitNoDateCheck ==
  /\ ~showsResults
  /\ ~submitDisabled
  /\ IF trim(form.destination) = << >> THEN
       /\ toast' = <<Notice("Missing Information", <<"Please enter a destination">>,
                           "destructive")>>
       /\ UNCHANGED <<formVars, serviceVars, pageVars, keysVars>>
     ELSE handlePlanTrip(form)

\* handleSubmit of the form, reached through the submit button
HandleSubmit ==
  /\ ~showsResults
  /\ ~submitDisabled
  /\ IF trim(form.destination) = << >> THEN
       /\ toast' = <<Notice("Missing Information", <<"Please enter a destination">>,
                           "destructive")>>
       /\ UNCHANGED <<formVars, serviceVars, pageVars, keysVars>>
     ELSE IF form.date = << >> THEN
       /\ toast' = <<Notice("Missing Information", <<"Please select a travel date">>,
                           "destructive")>>
       /\ UNCHANGED <<formVars, serviceVars, pageVars, keysVars>>
     ELSE handlePlanTrip(form)

\* How the awaited call can settle.  generateTripPlan fulfils with what it
\* returns for the draws of Math.random(); handlePlanTrip also provides for a
\* result with success false (with or without an error text) and for a
\* rejection, which stand for an unexpected failure of the generation.
Fulfilled(value) == [settled |-> "fulfilled", value |-> value]

Rejected == [settled |-> "rejected"]

GenerationFailures ==
  {Fulfilled([success |-> FALSE, error |-> "boom"]),
   Fulfilled([success |-> FALSE, error |-> ""]),
   Rejected}

GenerationSuccesses(request) ==
  {Fulfilled(generateTripPlan(request, tape)) : tape \in PageTapes}

\* result.success && result.data
planReady(outcome) ==
  /\ outcome.settled = "fulfilled"
  /\ outcome.value.success
  /\ "data" \in DOMAIN outcome.value

\* the notice of handlePlanTrip's three branches (the emoji that ends the first
\* title is left out)
planNotice(outcome, data) ==
  IF planReady(outcome) THEN
    Notice("Trip Plan Ready!",
           <<"Your ">> \o data.destination \o <<" adventure has been planned!">>,
           "default")
  ELSE IF outcome.settled = "fulfilled" THEN
    Notice("Planning Failed",
           IF outcome.value.error # ""
             THEN <<outcome.value.error>>
             ELSE <<"Unable to generate trip plan. Please try again.">>,
           "destructive")
  ELSE
    Notice("Error", <<"Something went wrong while planning your trip.">>,
           "destructive")

\* faulty variant of GenerationCompletes: the form's state is reset whatever
\* the outcome
GenerationCompletesResetsForm(outcome) ==
  /\ pc = "pending"
  /\ pc' = IF Len(formData) > 1 THEN "pending" ELSE "idle"
  /\ formData' = Tail(formData)
  /\ tripPlan' = IF planReady(outcome) THEN <<outcome.value.data>> ELSE tripPlan
  /\ toast' = <<planNotice(outcome, formData[1])>>
  /\ isGeneratingPlan' = FALSE
  /\ form' = initialFormData
  /\ UNCHANGED <<now, result, pageFormData, keysVars>>

\* faulty variant of GenerationCompletes: setIsGeneratingPlan(false) sits in the
\* success branch instead of the finally block
GenerationCompletesNoFinally(outcome) ==
  /\ pc = "pending"
  /\ pc' = IF Len(formData) > 1 THEN "pending" ELSE "idle"
  /\ formData' = Tail(formData)
  /\ tripPlan' = IF planReady(outcome) THEN <<outcome.value.data>> ELSE tripPlan
  /\ toast' = <<planNotice(outcome, formData[1])>>
  /\ isGeneratingPlan' = ~planReady(outcome)
  /\ form' = IF planReady(outcome) THEN initialFormData ELSE form
  /\ UNCHANGED <<now, result, pageFormData, keysVars>>

\* The 3000 ms timer of the oldest call in flight fires: generateTripPlan
\* settles and handlePlanTrip runs from its await to its end, in the same turn
\* of the event loop, with the data it was called with.  When the
\* results are then shown the form is unmounted; it comes back with its
\* initial state.
GenerationCompletes(outcome) ==
  /\ pc = "pending"
  /\ pc' = IF Len(formData) > 1 THEN "pending" ELSE "idle"
  /\ formData' = Tail(formData)
  /\ tripPlan' = IF planReady(outcome) THEN <<outcome.value.data>> ELSE tripPlan
  /\ toast' = <<planNotice(outcome, formData[1])>>
  /\ isGeneratingPlan' = FALSE
  /\ form' = IF planReady(outcome) THEN initialFormData ELSE form
  /\ UNCHANGED <<now, result, pageFormData, keysVars>>

\* the oldest call in flight settles, one way or another
Completes ==
  /\ pc = "pending"
  /\ \/ \E outcome \in GenerationFailures : GenerationCompletes(outcome)
     \/ \E outcome \in GenerationSuccesses(formData[1]) : GenerationCompletes(outcome)

\* handlePlanNewTrip, the "Plan a New Trip" button of the results view
HandlePlanNewTrip ==
  /\ showsResults
  /\ tripPlan' = << >>
  /\ pageFormData' = << >>
  /\ UNCHANGED <<formVars, serviceVars, isGeneratingPlan, toast, keysVars>>

\* The page with a moving clock; the party is kept to MaxParty + 1.
NextPage ==
  \/ \E value \in FormDestinations : SetDestination(value)
  \/ \E day \in CalendarDays : SelectDate(day)
  \/ DecrementPeople
  \/ IncrementPeople /\ form.people <= MaxParty
  \/ \E value \in FormBudgets : SetBudget(value)
  \/ \E value \in FormExperienceTypes : SetExperienceType(value)
  \/ Tick
  \/ HandleSubmit
  \/ Completes
  \/ HandlePlanNewTrip

SpecPage == Init /\ [][NextPage]_vars

\* The page with the destination, the date, the submission and what follows
\* it; the clock is stopped and the other controls are left alone.
NextSubmit ==
  \/ \E value \in FormDestinations : SetDestination(value)
  \/ \E day \in CalendarDays : SelectDate(day)
  \/ HandleSubmit
  \/ Completes
  \/ HandlePlanNewTrip

\* There is no cancellation: a timer that was set fires.
LiveSpecPage == Init /\ [][NextSubmit]_vars /\ WF_vars(Completes)

\* The page with the party controls over their whole range, the clock stopped
\* and the sliders left alone.
NextPeople ==
  \/ \E value \in FormDestinations : SetDestination(value)
  \/ \E day \in CalendarDays : SelectDate(day)
  \/ DecrementPeople
  \/ IncrementPeople
  \/ HandleSubmit
  \/ Completes
  \/ HandlePlanNewTrip

SpecPeople == Init /\ [][NextPeople]_vars

(***************************************************************************)
(* The ApiKeySetup component                                               *)
(***************************************************************************)
GeminiKeys == {<< >>, <<" ">>, <<"AIza-1">>, <<" ", "AIza-2">>}
TavilyKeys == {<< >>, <<" ">>, <<"tvly-1">>}

\* How the awaited TripPlannerService.testApiConnection can settle.  The stub
\* fulfils with true; handleSaveKeys also provides for false and for a
\* rejection, which a test that does test the keys can produce.
ConnectionOutcomes == {"true", "false", "throws"}

\* what the two setItem calls of saveApiKeys leave in the storage
saveApiKeys(gemini, tavily) == <<[gemini |-> gemini, tavily |-> tavily]>>

MissingKeysNotice ==
  Notice("Missing API Keys", <<"Please enter both Gemini and Tavily API keys">>,
         "destructive")

KeysSavedNotice ==
  Notice("API Keys Saved!",
         <<"Your API keys have been saved securely. You can now start planning trips!">>,
         "default")

KeysSavedDemoNotice ==
  Notice("API Keys Saved!",
         <<"Your API keys have been saved. Demo mode activated!">>, "default")

InvalidKeysNotice ==
  Notice("Invalid API Keys", <<"Please check your API keys and try again.">>,
         "destructive")

DemoModeNotice ==
  Notice("Demo Mode Activated",
         <<"You can explore the app with sample data. Add real API keys later for live functionality.">>,
         "default")

\* !geminiKey.trim() || !tavilyKey.trim()
keysMissing == trim(geminiKey) = << >> \/ trim(tavilyKey) = << >>

\* onChange of the Gemini key Input
SetGeminiKey(value) ==
  /\ geminiKey' = value
  /\ UNCHANGED <<tavilyKey, showGeminiKey, showTavilyKey, isTestingConnection,
                 localStorage, setupComplete, toast, serviceVars, formVars, pageVars>>

\* onChange of the Tavily key Input
SetTavilyKey(value) ==
  /\ tavilyKey' = value
  /\ UNCHANGED <<geminiKey, showGeminiKey, showTavilyKey, isTestingConnection,
                 localStorage, setupComplete, toast, serviceVars, formVars, pageVars>>

\* onClick of the eye button of the Gemini key
ToggleShowGeminiKey ==
  /\ showGeminiKey' = ~showGeminiKey
  /\ UNCHANGED <<geminiKey, tavilyKey, showTavilyKey, isTestingConnection,
                 localStorage, setupComplete, toast, serviceVars, formVars, pageVars>>

\* onClick of the eye button of the Tavily key
ToggleShowTavilyKey ==
  /\ showTavilyKey' = ~showTavilyKey
  /\ UNCHANGED <<geminiKey, tavilyKey, showGeminiKey, isTestingConnection,
                 localStorage, setupComplete, toast, serviceVars, formVars, pageVars>>

\* faulty variant of HandleSaveKeys: the keys are stored and the setup completes
\* whatever the test reports
HandleSaveKeysWhateverTheTest(outcome) ==
  /\ ~isTestingConnection
  /\ IF keysMissing THEN
       /\ toast' = <<MissingKeysNotice>>
       /\ UNCHANGED <<localStorage, setupComplete>>
     ELSE
       /\ localStorage' = saveApiKeys(geminiKey, tavilyKey)
       /\ toast' = <<IF outcome = "true" THEN KeysSavedNotice
                     ELSE IF outcome = "false" THEN InvalidKeysNotice
                     ELSE KeysSavedDemoNotice>>
       /\ setupComplete' = TRUE
  /\ isTestingConnection' = FALSE
  /\ UNCHANGED <<geminiKey, tavilyKey, showGeminiKey, showTavilyKey,
                 serviceVars, formVars, pageVars>>

\* handleSaveKeys, reached through the save button (disabled while
\* isTestingConnection).  testApiConnection awaits nothing, so the handler
\* runs from its start to its end with no event handled in between and
\* isTestingConnection, set to true before the test, is false again at the end.
HandleSaveKeys(outcome) ==
  /\ ~isTestingConnection
  /\ IF keysMissing THEN
       /\ toast' = <<MissingKeysNotice>>
       /\ UNCHANGED <<localStorage, setupComplete>>
     ELSE IF outcome = "true" THEN
       /\ localStorage' = saveApiKeys(geminiKey, tavilyKey)
       /\ toast' = <<KeysSavedNotice>>
       /\ setupComplete' = TRUE
     ELSE IF outcome = "false" THEN
       /\ toast' = <<InvalidKeysNotice>>
       /\ UNCHANGED <<localStorage, setupComplete>>
     ELSE
       /\ localStorage' = saveApiKeys(geminiKey, tavilyKey)
       /\ toast' = <<KeysSavedDemoNotice>>
       /\ setupComplete' = TRUE
  /\ isTestingConnection' = FALSE
  /\ UNCHANGED <<geminiKey, tavilyKey, showGeminiKey, showTavilyKey,
                 serviceVars, formVars, pageVars>>

\* handleSkipSetup, the demo button
HandleSkipSetup ==
  /\ localStorage' = saveApiKeys(<<"demo-gemini-key">>, <<"demo-tavily-key">>)
  /\ toast' = <<DemoModeNotice>>
  /\ setupComplete' = TRUE
  /\ UNCHANGED <<geminiKey, tavilyKey, showGeminiKey, showTavilyKey,
                 isTestingConnection, serviceVars, formVars, pageVars>>

NextKeys ==
  \/ \E value \in GeminiKeys : SetGeminiKey(value)
  \/ \E value \in TavilyKeys : SetTavilyKey(value)
  \/ ToggleShowGeminiKey
  \/ ToggleShowTavilyKey
  \/ \E outcome \in ConnectionOutcomes : HandleSaveKeys(outcome)
  \/ HandleSkipSetup

SpecKeys == Init /\ [][NextKeys]_vars

(***************************************************************************)
(* Shorthands for the properties                                           *)
(***************************************************************************)
Done == pc = "done"

Req == formData[1]

Res == result[1]

\* the call in flight was given a well-formed request and has resolved
DoneWellFormed == Done /\ Req.kind = "object"

\* ... and resolved with a plan
Planned == DoneWellFormed /\ Res.success

Plan == Res.data

StartsWith(s, p) == Len(s) >= Len(p) /\ SubSeq(s, 1, Len(p)) = p

TypeOK ==
  /\ pc \in {"idle", "pending", "done"}
  /\ Len(formData) = (IF pc = "idle" THEN 0 ELSE 1)
  /\ Len(result) = (IF pc = "done" THEN 1 ELSE 0)

(***************************************************************************)
(* C1: for every budget b the plan's totalDays is clamp(floor(b / 8000),   *)
(* 3, 14): it lies in [3, 14], it is above 3 only when 8000 * totalDays    *)
(* <= b, and below 14 only when b < 8000 * (totalDays + 1); b = 5000 gives *)
(* 3, b = 64000 gives 8 and b = 1000000 gives 14.                          *)
(***************************************************************************)
C1_TotalDaysClamp ==
  Planned =>
    /\ Plan.totalDays \in 3..14
    /\ (Plan.totalDays > 3 => 8000 * Plan.totalDays <= Req.budget)
    /\ (Plan.totalDays < 14 => Req.budget < 8000 * (Plan.totalDays + 1))
    /\ (Req.budget = 5000 => Plan.totalDays = 3)
    /\ (Req.budget = 64000 => Plan.totalDays = 8)
    /\ (Req.budget = 1000000 => Plan.totalDays = 14)

C1_Witness == Planned /\ Req.budget = 64000 /\ Plan.totalDays = 8

(***************************************************************************)
(* C2: in every generated plan totalCost is the sum of the DayPlans'       *)
(* estimatedCost plus hotel.pricePerNight * totalDays, and costPerPerson   *)
(* is totalCost / partySize rounded to the nearest whole unit (a half      *)
(* rounds up).                                                             *)
(***************************************************************************)
C2_CostRollup ==
  Planned =>
    /\ Plan.totalCost =
         SumSeq([i \in 1..Len(Plan.dayPlans) |-> Plan.dayPlans[i].estimatedCost],
                Len(Plan.dayPlans))
           + Plan.hotels[1].pricePerNight * Plan.totalDays
    /\ 2 * Plan.costPerPerson * Req.people - Req.people <= 2 * Plan.totalCost
    /\ 2 * Plan.totalCost < 2 * Plan.costPerPerson * Req.people + Req.people

\* a plan for two whose total is odd, so that the division really rounds
C2_Witness ==
  /\ Planned
  /\ Req.people = 2
  /\ Plan.totalCost % 2 = 1
  /\ 2 * Plan.costPerPerson = Plan.totalCost + 1

(***************************************************************************)
(* C3: every DayPlan's estimatedCost is exactly the sum of the costs of    *)
(* that day's own activities.                                              *)
(***************************************************************************)
C3_DayCostIsActivitySum ==
  Planned =>
    \A d \in 1..Len(Plan.dayPlans) :
      LET acts == Plan.dayPlans[d].activities
      IN  Plan.dayPlans[d].estimatedCost =
            SumSeq([i \in 1..Len(acts) |-> acts[i].cost], Len(acts))

\* a plan one of whose days has activities of different costs
C3_Witness ==
  /\ Planned
  /\ \E d \in 1..Len(Plan.dayPlans) :
       /\ Plan.dayPlans[d].estimatedCost > 0
       /\ \E i, j \in 1..Len(Plan.dayPlans[d].activities) :
            Plan.dayPlans[d].activities[i].cost # Plan.dayPlans[d].activities[j].cost

(***************************************************************************)
(* C4: for every experience level e in [0, 100] the plan holds exactly one *)
(* hotel, that of e's band ([0,25] budget, (25,50] comfort, (50,75]        *)
(* premium, (75,100] luxury), and its pricePerNight is                     *)
(* round(basePrice(band(e)) * (1 + e/100)) with base prices 1500, 3500,    *)
(* 7500 and 15000.                                                         *)
(***************************************************************************)
C4_Band(e) ==
  IF e <= 25 THEN [name |-> Req.destination \o <<" Backpacker's Haven">>, base |-> 1500]
  ELSE IF e <= 50 THEN [name |-> Req.destination \o <<" Comfort Inn & Suites">>, base |-> 3500]
  ELSE IF e <= 75 THEN [name |-> Req.destination \o <<" Premium Resort">>, base |-> 7500]
  ELSE [name |-> <<"The Luxury ">> \o Req.destination \o <<" Collection">>, base |-> 15000]

C4_OneHotelByBand ==
  (Planned /\ Req.experienceType \in 0..100) =>
    LET e == Req.experienceType
        band == C4_Band(e)
    IN  /\ Len(Plan.hotels) = 1
        /\ Plan.hotels[1].name = band.name
        \* the nearest whole number to base * (100 + e) / 100
        /\ 200 * Plan.hotels[1].pricePerNight - 100 <= 2 * band.base * (100 + e)
        /\ 2 * band.base * (100 + e) < 200 * Plan.hotels[1].pricePerNight + 100

\* the upper edge of the budget band: 1500 * 1.25
C4_Witness ==
  /\ Planned
  /\ Req.experienceType = 25
  /\ Plan.hotels[1].pricePerNight = 1875

(***************************************************************************)
(* C5 (as stated): the request destination = "Paris", budget = 40000,      *)
(* partySize = 2, experienceLevel = 25 yields totalDays = 5, a             *)
(* comfort-tier hotel (base 3500, multiplier 1.25) at 4375 per night, 4    *)
(* activities on every day and no tier prefix on any activity name.        *)
(***************************************************************************)
C5_IsScenario ==
  /\ Planned
  /\ Req.destination = <<"Paris">>
  /\ Req.budget = 40000
  /\ Req.people = 2
  /\ Req.experienceType = 25

C5_NoTierPrefix ==
  \A d \in 1..Len(Plan.dayPlans) :
    \A i \in 1..Len(Plan.dayPlans[d].activities) :
      /\ ~StartsWith(Plan.dayPlans[d].activities[i].name, <<"Premium ">>)
      /\ ~StartsWith(Plan.dayPlans[d].activities[i].name, <<"Private ">>)

C5_ScenarioAsStated ==
  C5_IsScenario =>
    /\ Plan.totalDays = 5
    /\ Len(Plan.hotels) = 1
    /\ Plan.hotels[1].name = <<"Paris", " Comfort Inn & Suites">>
    /\ Plan.hotels[1].pricePerNight = 4375
    /\ \A d \in 1..Len(Plan.dayPlans) : Len(Plan.dayPlans[d].activities) = 4
    /\ C5_NoTierPrefix

(***************************************************************************)
(* C5 (amended): that request yields totalDays = 5, a budget-tier hotel    *)
(* (base 1500, multiplier 1.25) at 1875 per night, 3 activities on every   *)
(* day and no tier prefix on any activity name.                            *)
(***************************************************************************)
C5_ScenarioAmended ==
  C5_IsScenario =>
    /\ Plan.totalDays = 5
    /\ Len(Plan.dayPlans) = 5
    /\ Len(Plan.hotels) = 1
    /\ Plan.hotels[1].name = <<"Paris", " Backpacker's Haven">>
    /\ Plan.hotels[1].pricePerNight = 1875
    /\ \A d \in 1..Len(Plan.dayPlans) : Len(Plan.dayPlans[d].activities) = 3
    /\ C5_NoTierPrefix

C5_Witness == C5_IsScenario /\ Len(Plan.dayPlans[5].activities) = 3

(***************************************************************************)
(* C6: the tier prefix of an activity name is keyed by band and exclusive: *)
(* for e > 75 every name is "Private " followed by the plain activity name *)
(* (so it starts with "Private " and not with "Premium "), for             *)
(* 50 < e <= 75 it is "Premium " followed by the plain name, and for       *)
(* e <= 50 it is the plain name, nothing added (e = 80 Private, e = 60     *)
(* Premium, e = 30 none).                                                  *)
(***************************************************************************)
\* every activity name of the plan is prefix followed by the plain name
C6_NamesAre(prefix) ==
  \A d \in 1..Len(Plan.dayPlans) :
    \A i \in 1..Len(Plan.dayPlans[d].activities) :
      /\ Plan.dayPlans[d].activities[i].name =
           prefix \o baseActivityName(Req.destination, Plan.dayPlans[d].theme, i - 1)
      /\ StartsWith(Plan.dayPlans[d].activities[i].name, prefix)

C6_NoneStartsWith(prefix) ==
  \A d \in 1..Len(Plan.dayPlans) :
    \A i \in 1..Len(Plan.dayPlans[d].activities) :
      ~StartsWith(Plan.dayPlans[d].activities[i].name, prefix)

C6_PrefixByBand ==
  Planned =>
    /\ (Req.experienceType > 75 =>
          C6_NamesAre(<<"Private ">>) /\ C6_NoneStartsWith(<<"Premium ">>))
    /\ (Req.experienceType > 50 /\ Req.experienceType <= 75 =>
          C6_NamesAre(<<"Premium ">>))
    /\ (Req.experienceType <= 50 => C6_NamesAre(<< >>))

C6_Witness ==
  /\ Planned
  /\ Req.experienceType = 80
  /\ Plan.dayPlans[1].activities[1].name = <<"Private ", "Paris", " Walking Tour">>

(***************************************************************************)
(* C7: the tips only accumulate with the experience level: 5 tips for      *)
(* e <= 50, 7 for 50 < e <= 75, 8 for e > 75 (e = 10 gives 5, e = 60 gives *)
(* 7, e = 90 gives 8), and the tips of every lower level, for the same     *)
(* destination, are a prefix of the plan's tips.                           *)
(***************************************************************************)
C7_TipsAccumulate ==
  Planned =>
    /\ Len(Plan.tips) = (IF Req.experienceType <= 50 THEN 5
                         ELSE IF Req.experienceType <= 75 THEN 7 ELSE 8)
    /\ (Req.experienceType = 10 => Len(Plan.tips) = 5)
    /\ (Req.experienceType = 60 => Len(Plan.tips) = 7)
    /\ (Req.experienceType = 90 => Len(Plan.tips) = 8)
    /\ \A lower \in ExperienceLevels :
         lower <= Req.experienceType =>
           StartsWith(Plan.tips, generateTips(Req.destination, lower))

C7_Witness ==
  /\ Planned
  /\ Req.experienceType = 90
  /\ Len(Plan.tips) = 8
  /\ SubSeq(Plan.tips, 1, 7) = generateTips(Req.destination, 60)
  /\ SubSeq(Plan.tips, 1, 5) = generateTips(Req.destination, 10)

C9_WellFormedRequest ==
  /\ Req.kind = "object"
  /\ Req.budget > 0
  /\ Req.people >= 1
  /\ Req.experienceType \in 0..100

C9_NeverFails ==
  (Done /\ C9_WellFormedRequest) =>
    /\ Res.success
    /\ "data" \in DOMAIN Res
    /\ Res.data.destination = Req.destination
    /\ Len(Res.data.hotels) >= 1
    /\ Len(Res.data.dayPlans) = Res.data.totalDays
    /\ Len(Res.data.tips) >= 5

\* a luxury request without a date resolved with a plan
C9_Witness ==
  /\ Done
  /\ C9_WellFormedRequest
  /\ Req.date = << >>
  /\ Req.experienceType = 100
  /\ Res.success

(***************************************************************************)
(* C10 (as stated): the result carries either a plan (success) or an error *)
(* message (failure), never both and never neither, and when synthesis     *)
(* throws, the error is the generic message, not the exception's own text. *)
(***************************************************************************)
C10_PlanXorError ==
  /\ Res.success => ("data" \in DOMAIN Res /\ "error" \notin DOMAIN Res)
  /\ ~Res.success => ("error" \in DOMAIN Res /\ "data" \notin DOMAIN Res)

C10_GenericMessageAsStated ==
  Done =>
    /\ C10_PlanXorError
    /\ (~Res.success => Res.error = "Failed to generate trip plan")

(***************************************************************************)
(* C10 (amended): the result carries either a plan (success) or an error   *)
(* message (failure), never both and never neither; when synthesis throws  *)
(* an Error, the error message is that exception's own message, and it is  *)
(* the generic "Failed to generate trip plan" only when the thrown value   *)
(* is not an Error.                                                        *)
(***************************************************************************)
C10_ResultShape ==
  Done =>
    /\ C10_PlanXorError
    /\ (Res.success <=> Req.kind = "object")
    /\ (Req.kind = "null" =>
          Res.error = "Cannot destructure property 'destination' of 'formData' as it is null.")
    /\ (Req.kind = "getter" /\ Req.thrown.isError => Res.error = Req.thrown.message)
    /\ (Req.kind = "getter" /\ ~Req.thrown.isError =>
          Res.error = "Failed to generate trip plan")

\* a call whose synthesis threw an Error, surfaced with the Error's message
C10_Witness ==
  /\ Done
  /\ Req.kind = "getter"
  /\ Req.thrown.isError
  /\ ~Res.success
  /\ Res.error = "boom"

(***************************************************************************)
(* Shorthands for the page's properties                                    *)
(***************************************************************************)
MissingDestinationNotice ==
  Notice("Missing Information", <<"Please enter a destination">>, "destructive")

MissingDateNotice ==
  Notice("Missing Information", <<"Please select a travel date">>, "destructive")

FailureNotices ==
  {Notice("Planning Failed", <<"boom">>, "destructive"),
   Notice("Planning Failed", <<"Unable to generate trip plan. Please try again.">>,
          "destructive"),
   Notice("Error", <<"Something went wrong while planning your trip.">>, "destructive")}

\* a step in which a generation call settles without a plan
GenerationFails ==
  /\ pc = "pending"
  /\ Len(formData') < Len(formData)
  /\ toast' # << >>
  /\ toast'[1] \in FailureNotices

(***************************************************************************)
(* C11: in every reachable state of the page at most one generation call   *)
(* is in flight; while one is, isGeneratingPlan is true and the submit     *)
(* control is disabled, so that no second handlePlanTrip starts before the *)
(* first has resolved.                                                     *)
(***************************************************************************)
C11_OneCallInFlight ==
  /\ Len(formData) <= 1
  /\ (pc = "pending" <=> Len(formData) = 1)
  /\ (pc = "pending" => isGeneratingPlan /\ submitDisabled /\ ~ENABLED HandleSubmit)
  /\ (isGeneratingPlan => pc = "pending")

\* a call is in flight and the form has been edited since it was submitted
C11_Witness ==
  /\ pc = "pending"
  /\ isGeneratingPlan
  /\ form.destination = << >>
  /\ pageFormData[1].destination = <<"Paris">>

(***************************************************************************)
(* C12: every generation call issued eventually resolves, and once it has, *)
(* with success or with failure, isGeneratingPlan is false again: the page *)
(* does not stay busy.                                                     *)
(***************************************************************************)
C12_EventuallyNotBusy ==
  /\ (pc = "pending") ~> (pc = "idle")
  /\ isGeneratingPlan ~> ~isGeneratingPlan

\* a call has failed and the page is not busy
C12_Witness ==
  /\ pc = "idle"
  /\ ~isGeneratingPlan
  /\ toast # << >>
  /\ toast[1] \in FailureNotices

(***************************************************************************)
(* C13: a submission with a missing destination (empty or white space      *)
(* only) or a missing date is caught before generation: handlePlanTrip is  *)
(* not called, a notice is shown, and the form fields, isGeneratingPlan,   *)
(* tripPlan and formData stay as they were.                                *)
(***************************************************************************)
C13_ValidationBlocksSubmission ==
  [][(HandleSubmit /\ (trim(form.destination) = << >> \/ form.date = << >>)) =>
       /\ UNCHANGED <<form, serviceVars, pageVars>>
       /\ toast' \in {<<MissingDestinationNotice>>, <<MissingDateNotice>>}
       /\ (trim(form.destination) = << >> => toast' = <<MissingDestinationNotice>>)]_vars

\* a destination is there, the date is not, and the notice says so
C13_Witness ==
  /\ form.destination = <<"Paris">>
  /\ form.date = << >>
  /\ toast = <<MissingDateNotice>>
  /\ pc = "idle"
  /\ pageFormData = << >>

(***************************************************************************)
(* C14 (as stated): when generation fails, a failure notice is shown, no   *)
(* plan is stored, the form stays displayed with the values entered, and   *)
(* the state held before the submission is left as it was.  Before a       *)
(* submission the form view holds no plan and no formData (the page is as  *)
(* constructed or as handlePlanNewTrip left it).                           *)
(***************************************************************************)
C14_PriorStateIntactAsStated ==
  [][GenerationFails =>
       /\ tripPlan' = << >>
       /\ ~showsResults'
       /\ form' = form
       /\ isGeneratingPlan' = FALSE
       /\ pageFormData' = << >>]_vars

(***************************************************************************)
(* C14 (amended): when generation fails, a failure notice is shown, no     *)
(* plan is stored, the form stays displayed with the values entered and    *)
(* isGeneratingPlan is false again; the page's formData is not put back:   *)
(* it holds the request that was submitted.                                *)
(***************************************************************************)
C14_FailureReturnsToForm ==
  [][GenerationFails =>
       /\ tripPlan' = << >>
       /\ ~showsResults'
       /\ form' = form
       /\ isGeneratingPlan' = FALSE
       /\ pageFormData' = pageFormData
       /\ AsRequest(pageFormData'[1]) = formData[1]]_vars

\* after a failure the form still holds what was entered and submitted
C14_Witness ==
  /\ pc = "idle"
  /\ toast # << >>
  /\ toast[1] \in FailureNotices
  /\ tripPlan = << >>
  /\ form.destination = <<"Paris">>
  /\ form.people = 3
  /\ pageFormData = <<form>>

(***************************************************************************)
(* C15 (as stated): the travel date must be today or later: at any current *)
(* time today's date and every later date can be picked in the calendar,   *)
(* and no date before today can.                                           *)
(***************************************************************************)
C15_TodayOrLaterSelectable ==
  \A day \in CalendarDays :
    ENABLED SelectDate(day) <=> (~showsResults /\ day >= now \div TicksPerDay)

(***************************************************************************)
(* C16 (as stated): when handleSaveKeys runs with both keys non-empty, the *)
(* two keys are written to the storage and the setup completes, whether    *)
(* the connection test reports true, reports false, or throws.             *)
(***************************************************************************)
C16_SavedWhateverTheTest ==
  [][\A outcome \in ConnectionOutcomes :
       (HandleSaveKeys(outcome) /\ ~keysMissing) =>
         /\ localStorage' = saveApiKeys(geminiKey, tavilyKey)
         /\ setupComplete']_vars

(***************************************************************************)
(* C16 (amended): when handleSaveKeys runs with both keys non-empty, the   *)
(* two keys are written to the storage, as typed, and the setup completes  *)
(* when the connection test reports true or throws; when it reports false  *)
(* nothing is written, the setup does not complete and the notice says the *)
(* keys are invalid.  Either way isTestingConnection is false afterwards.  *)
(***************************************************************************)
C16_SavedUnlessReportedInvalid ==
  [][\A outcome \in ConnectionOutcomes :
       (HandleSaveKeys(outcome) /\ ~keysMissing) =>
         /\ isTestingConnection' = FALSE
         /\ IF outcome = "false" THEN
              /\ localStorage' = localStorage
              /\ setupComplete' = setupComplete
              /\ toast' = <<InvalidKeysNotice>>
            ELSE
              /\ localStorage' = saveApiKeys(geminiKey, tavilyKey)
              /\ setupComplete'
              /\ toast'[1].title = "API Keys Saved!"]_vars

\* the test has reported false for two keys that were typed: nothing is stored
C16_Witness ==
  /\ ~keysMissing
  /\ toast = <<InvalidKeysNotice>>
  /\ localStorage = << >>
  /\ ~setupComplete
  /\ ~isTestingConnection

(***************************************************************************)
(* C18: after any clicks on the party-size controls, starting from 2, the  *)
(* form's people value is in [1, 20]; a decrement at 1 and an increment at *)
(* 20 leave it unchanged, so every request submitted has partySize >= 1.   *)
(***************************************************************************)
C18_PartySizeInRange ==
  /\ [](/\ form.people \in 1..20
        /\ \A i \in 1..Len(formData) : formData[i].people \in 1..20
        /\ \A i \in 1..Len(pageFormData) : pageFormData[i].people \in 1..20)
  /\ [][(DecrementPeople /\ form.people = 1) => form' = form]_vars
  /\ [][(IncrementPeople /\ form.people = 20) => form' = form]_vars

\* a request for twenty has been submitted
C18_Witness ==
  /\ form.people = 20
  /\ pc = "pending"
  /\ formData[1].people = 20

(***************************************************************************)
(* C17: the travel date does not interfere with the output: a request that *)
(* differs only in its travel date (present, absent or another day), run   *)
(* with the same random draws, yields the identical plan, and a request    *)
(* with the same budget yields the same totalDays whatever its date and    *)
(* destination.                                                            *)
(***************************************************************************)
C17_DateDoesNotInterfere ==
  (pc = "done" /\ Len(result) = 2) =>
    /\ result[1].success /\ result[2].success
    /\ result[1].data.totalDays = result[2].data.totalDays
    /\ (formData[1].destination = formData[2].destination => result[1] = result[2])

\* a request with a date and the same request without one, resolved with the
\* same plan, longer than a week and with activities of different costs
C17_Witness ==
  /\ pc = "done"
  /\ Len(result) = 2
  /\ formData[1].date = <<1>>
  /\ formData[2] = [formData[1] EXCEPT !.date = << >>]
  /\ result[1] = result[2]
  /\ result[1].data.totalDays = 9
  /\ result[1].data.dayPlans[1].activities[1].cost
       # result[1].data.dayPlans[1].activities[2].cost

(***************************************************************************)
(* C19: a plan has exactly totalDays DayPlans in order; the k-th (k from   *)
(* 1) has day = k and the ((k - 1) mod 8)-th of the eight fixed themes, so *)
(* day 1 is "Arrival & City Exploration" and, when totalDays > 8, day 9    *)
(* has that theme again.                                                   *)
(***************************************************************************)
C19_Themes ==
  << <<"Arrival & City Exploration">>, <<"Cultural Heritage Tour">>,
     <<"Adventure & Nature">>, <<"Local Cuisine & Markets">>,
     <<"Art & Museums">>, <<"Relaxation & Wellness">>,
     <<"Shopping & Entertainment">>, <<"Departure & Last Moments">> >>

C19_DaysAndThemes ==
  Planned =>
    /\ Len(Plan.dayPlans) = Plan.totalDays
    /\ \A k \in 1..Len(Plan.dayPlans) :
         /\ Plan.dayPlans[k].day = k
         /\ Plan.dayPlans[k].theme = C19_Themes[((k - 1) % 8) + 1]
    /\ Plan.dayPlans[1].theme = <<"Arrival & City Exploration">>
    /\ (Plan.totalDays > 8 =>
          Plan.dayPlans[9].theme = <<"Arrival & City Exploration">>)

C19_Witness ==
  /\ Planned
  /\ Plan.totalDays = 9
  /\ Plan.dayPlans[8].theme = <<"Departure & Last Moments">>
  /\ Plan.dayPlans[9].theme = <<"Arrival & City Exploration">>

(***************************************************************************)
(* C20: the plan's totalCost is not kept within the requested budget: for  *)
(* the smallest budget the form allows, 5000, every plan at every          *)
(* experience level lasts 3 days and costs at least 9000 (3 nights at      *)
(* 1500 or more and 9 or more activities at 500 or more each), which is    *)
(* more than the budget.                                                   *)
(***************************************************************************)
C20_CheapestPlanExceedsBudget ==
  (Planned /\ Req.budget = BudgetMin) =>
    /\ Plan.totalDays = 3
    /\ Plan.hotels[1].pricePerNight >= 1500
    /\ \A d \in 1..3 :
         /\ Len(Plan.dayPlans[d].activities) >= 3
         /\ \A i \in 1..Len(Plan.dayPlans[d].activities) :
              Plan.dayPlans[d].activities[i].cost >= 500
    /\ Plan.totalCost >= 9000
    /\ Plan.totalCost > Req.budget

\* the cheapest plan there is: level 0 and every draw 0
C20_Witness ==
  /\ Planned
  /\ Req.budget = BudgetMin
  /\ Req.experienceType = 0
  /\ Plan.totalCost = 9000

(***************************************************************************)
(* C21: in every reachable state of the Index page, whatever the order of  *)
(* submissions, completions and "Plan a New Trip", a stored tripPlan comes *)
(* with a stored formData that is the request which produced the plan      *)
(* (same destination); no generation is pending while the results are      *)
(* shown; and handlePlanNewTrip, which the results view offers, clears     *)
(* both tripPlan and formData, so that the form is shown again.            *)
(***************************************************************************)
C21_PlansOf(data) ==
  {generateTripPlan(AsRequest(data), tape).data : tape \in PageTapes}

C21_PlanMatchesFormData ==
  /\ [](tripPlan # << >> =>
          /\ pageFormData # << >>
          /\ tripPlan[1].destination = pageFormData[1].destination
          /\ tripPlan[1] \in C21_PlansOf(pageFormData[1]))
  /\ [](showsResults =>
          /\ pc = "idle"
          /\ formData = << >>
          /\ ~isGeneratingPlan
          /\ ENABLED HandlePlanNewTrip)
  /\ [][(showsResults /\ <<tripPlan, pageFormData>>' # <<tripPlan, pageFormData>>) =>
          /\ tripPlan' = << >>
          /\ pageFormData' = << >>
          /\ ~showsResults'
          /\ form' = initialFormData]_vars

\* the results of a request for three with the smallest budget are shown
C21_Witness ==
  /\ showsResults
  /\ pageFormData[1].budget = BudgetMin
  /\ pageFormData[1].people = 3
  /\ tripPlan[1].totalDays = 3
  /\ toast[1].title = "Trip Plan Ready!"

====
